---- MODULE Spec2Model ----
(***************************************************************************)
(* ngx-states: the four reactive state containers (State, ArrayState,      *)
(* KeyValueState, KeyValuesState) over an rxjs BehaviorSubject, their      *)
(* mutators and their named subscriptions (onSet, onChange, onFirstSet,    *)
(* onFromSecondSet, ...), with prepareSubscription's owner-scoped teardown. *)
(*                                                                         *)
(* One behaviour of the model is the life of one container instance: its   *)
(* kind is chosen at construction.  A mutator call is one action: rxjs     *)
(* delivers synchronously, so every subscriber has been run when the call  *)
(* returns.  Observers are passive (they record what they are given).      *)
(***************************************************************************)
EXTENDS Integers, Sequences, FiniteSets, TLC

\* ------------------------------------------------------------- bounds
\* Steps (subscriptions, mutator calls, destructions) explored on one
\* container instance: under Spec (every class), under SpecState (State
\* alone), under SpecScenario (State, set without the flag), under
\* SpecSecond (State and ArrayState, set alone), under SpecKV (KeyValueState),
\* under SpecKeys (KeyValueState, composite keys), under SpecLength
\* (KeyValuesState, nested lists), under SpecKVKey (KeyValueState, the
\* streams of one key)
\* and under SpecOwner (subscriptions owned by components).
MaxSteps == 3
MaxStateSteps == 4
MaxScenarioSteps == 5
MaxSecondSteps == 4
MaxKVSteps == 3
MaxKeysSteps == 2
MaxKVKeySteps == 4
MaxKVsKeySteps == 3
MaxKVsListsSteps == 3
MaxItemsSteps == 3
MaxReentrantSteps == 6
MaxHasItemSteps == 3
MaxLengthSteps == 2
MaxOwnerSteps == 4
\* Subscriptions made on one container instance.
MaxSubs == 2
\* Key parts given to one *ByKeys call.
MaxParts == 2

\* ------------------------------------------------------- value domains
\* JavaScript null (State's constructor turns a missing initial value into it).
Null == 0
\* The non-null primitive values a State<number> or a KeyValueState holds.
Values == {5, 6}
\* The elements of the lists of ArrayState and KeyValuesState.
Items == {1, 2}
\* The keys of KeyValueState and KeyValuesState.
Keys == {"a", "b"}
NoKey == ""
\* Components (owners of subscriptions); NoComponent is an absent argument.
NoComponent == 0
Components == {1, 2}

VARIABLES
  kind,                  \* which container class this instance is
  subject,               \* BehaviorSubject's current value: [ref, val]
  bypassChangeDetection, \* BaseState.bypassChangeDetection
  subs,                  \* the subscriptions, in subscription order
  destroyed,             \* component -> -1 (alive) or the number of calls made when it was destroyed
  history,               \* the mutator calls made so far (ghost)
  delivered,             \* every observer invocation, in order (ghost)
  constructed,           \* the value the constructor installed (ghost)
  limit                  \* the steps explored on this instance (ghost)

vars == <<kind, subject, bypassChangeDetection, subs, destroyed, history, delivered,
          constructed, limit>>

\* ------------------------------------------------------------- values
\* A primitive has no identity (ref 0); an object (a list, a mapping) is a
\* reference and its present content.
Prim(v) == [ref |-> 0, val |-> v]
Obj(r, c) == [ref |-> r, val |-> c]

\* (a variant that compares objects by their content)
SameContent(a, b) == a.val = b.val
\* JavaScript ===, as distinctUntilChanged() uses it: primitives by value,
\* objects by reference.
StrictEq(a, b) == IF a.ref = 0 \/ b.ref = 0 THEN a = b ELSE a.ref = b.ref

\* (a variant that tests for undefined alone, so that null passes)
isNullOrUndefinedMissesNull(x) == FALSE
isNullOrUndefined(x) == x.ref = 0 /\ x.val = Null

\* BehaviorSubject.getValue(), the `value` accessor.
value == subject

\* The reference of an object first seen during the next call (the object
\* the constructor installs has reference 1), and of the list it holds at
\* the i-th key.
FreshRef == Len(history) + 2
FreshListRef(i) == FreshRef * 10 + i
KeyIndex(k) == IF k = "a" THEN 1 ELSE 2

\* (a variant that never finds the element)
IncludesNever(list, v) == FALSE
\* Array.prototype.includes, Array.prototype.filter(x => x !== v)
Includes(list, v) == \E i \in 1..Len(list) : list[i] = v
\* (a variant that removes nothing)
WithoutNothing(list, v) == list
Without(list, v) == SelectSeq(list, LAMBDA x : x # v)

\* A mapping with the entry for k set to v ({...m, [k]: v}; m[k] = v), and
\* with it deleted (delete m[k]).
WithKey(m, k, v) == [j \in DOMAIN m \cup {k} |-> IF j = k THEN v ELSE m[j]]
WithoutKey(m, k) == [j \in DOMAIN m \ {k} |-> m[j]]
EmptyMap == [j \in {} |-> Null]
\* (a variant that finds every key)
KeyInAlways(k, m) == TRUE
\* key in record
KeyIn(k, m) == k \in DOMAIN m

\* ------------------------------------------------------ subscriptions
Kinds == {"State", "ArrayState", "KeyValueState", "KeyValuesState"}

\* The subscription methods of each class ("state" is a plain subscribe on
\* the `state` observable).
Modes(k) ==
  CASE k = "State" ->
         {"state", "onSet", "onChange", "onFirstSet", "onFirstChange",
          "onFromSecondSet", "onFromSecondChange"}
    [] k = "ArrayState" ->
         {"state", "onSet", "onChange", "onFirstSet", "onFirstChange",
          "onFromSecondSet", "onFromSecondChange"}
    [] k = "KeyValueState" ->
         {"state", "onSet", "onChange", "onFirstChange", "onFirstNonEmptyChange",
          "onFromSecondChange"}
    [] k = "KeyValuesState" ->
         {"state", "onSet", "onChange", "onFirstSet", "onFirstChange",
          "onFirstNonEmptySet", "onFirstNonEmptyChange",
          "onFromSecondSet", "onFromSecondChange"}

\* The operators each method pipes `state` through, in order.
Pipe(k, mode) ==
  CASE mode = "state" -> << >>
    [] mode = "onSet" -> <<"filter">>
    [] mode = "onChange" -> <<"distinctUntilChanged", "filter">>
    [] mode = "onFirstSet" ->
         IF k = "ArrayState" THEN <<"filterLength", "first">> ELSE <<"filter", "first">>
    [] mode = "onFirstChange" ->
         CASE k = "ArrayState" -> <<"distinctUntilChanged", "filterLength", "first">>
           [] k = "KeyValueState" -> <<"filter", "first">>
           [] OTHER -> <<"distinctUntilChanged", "filter", "first">>
    [] mode = "hasKey" -> <<"mapHasKey", "distinctUntilChanged">>
    \* stateOfKey(key, changedStateOnly): "stateOfKey" is changedStateOnly =
    \* true, "stateOfKeyEvery" is changedStateOnly = false (KeyValuesState
    \* pipes distinctUntilChanged() in both, and a second time in the first:
    \* applied twice it drops what it drops applied once)
    [] mode = "stateOfKey" -> <<"filterKey", "mapKey", "distinctUntilChanged">>
    [] mode = "stateOfKeyEvery" ->
         IF k = "KeyValuesState" THEN <<"filterKey", "mapKey", "distinctUntilChanged">>
         ELSE <<"filterKey", "mapKey">>
    \* hasItem(item, exactMatch) and hasKey(key, exactMatch): "hasItem" and
    \* "hasKey" are exactMatch = true, the "Partial" modes exactMatch = false
    [] mode = "hasKeyPartial" -> <<"mapHasKeyPartial", "distinctUntilChanged">>
    [] mode = "hasItem" -> <<"mapHasItem", "distinctUntilChanged">>
    [] mode = "hasItemPartial" -> <<"mapHasItemPartial", "distinctUntilChanged">>
    \* ArrayState.stateOfItem(predicate), stateOfItems(predicate)
    [] mode = "stateOfItem" -> <<"mapFind", "filterDefined", "first">>
    [] mode = "stateOfItems" -> <<"mapFilter", "distinctJSON">>
    \* KeyValueState.onValueChange(key, ..., filterValues): "onValueChange" is
    \* filterValues = true, "onValueChangeUnfiltered" is filterValues = false
    \* (tap() in place of the filter)
    [] mode = "onValueChange" -> <<"mapKeyOrUndefined", "filter", "distinctUntilChanged">>
    [] mode = "onValueChangeUnfiltered" -> <<"mapKeyOrUndefined", "distinctUntilChanged">>
    [] mode = "onFirstNonEmptySet" -> <<"filterKeys", "first">>
    [] mode = "onFirstNonEmptyChange" ->
         IF k = "KeyValueState" THEN <<"filterKeys", "first">>
         ELSE <<"distinctUntilChanged", "filterKeys", "first">>
    [] mode = "onFromSecondSet" ->
         IF k = "KeyValuesState" THEN <<"untilDestroyed", "filter", "skip">>
         ELSE <<"filter", "skip">>
    [] mode = "onFromSecondChange" ->
         CASE k = "KeyValueState" -> <<"untilDestroyed", "filter", "skip">>
           [] k = "KeyValuesState" ->
                <<"untilDestroyed", "distinctUntilChanged", "filter", "skip">>
           [] OTHER -> <<"distinctUntilChanged", "filter", "skip">>

\* The position of `callerComponent` among the parameters of the method's
\* implementation signature (0: the method has no such parameter).
CallerComponentParam(k, mode) ==
  IF mode \in {"onSet", "onChange", "onFromSecondSet", "onFromSecondChange"} THEN 4 ELSE 0

\* Where a caller may pass the component: second (the declared overload
\* `(observer, callerComponent)`, the README's form) or fourth
\* (`(observer, error, complete, callerComponent)`).
ArgPositions(k, mode) == IF CallerComponentParam(k, mode) = 0 THEN {} ELSE {2, 4}

\* JavaScript binds arguments by position: the component reaches
\* `callerComponent` only when passed at that parameter's position.
BoundCallerComponent(k, mode, pos, c) ==
  IF pos # 0 /\ pos = CallerComponentParam(k, mode) THEN c ELSE NoComponent

\* (variants that leave out the flag, or the null test)
FilterIgnoresFlag(x, flag) == ~isNullOrUndefined(x)
FilterIgnoresNull(x, flag) == ~flag
\* filter(x => !isNullOrUndefined(x) && !this.bypassChangeDetection)
FilterPasses(x, flag) == ~isNullOrUndefined(x) /\ ~flag

\* (a variant that lets every value through)
DistinctPassesAlways(st, x) == TRUE
\* distinctUntilChanged(): drop a value === the previous one it saw.
DistinctPasses(st, x) == ~(st.dHas /\ StrictEq(st.dKey, x))

\* (a variant that skips nothing)
SkipNone == 1 - 1
\* skip(1)
SkipCount == 1

\* record[key] of a record that has the key: a primitive in a KeyValueState,
\* a list object in a KeyValuesState
ValueAt(x, k) == IF kind = "KeyValuesState" THEN x.val[k] ELSE Prim(x.val[k])
\* (a variant that reads undefined at every key)
LookupNothing(x, k) == Prim(Null)
\* record[key]: undefined when the record has no such key
Lookup(x, k) == IF k \in DOMAIN x.val THEN ValueAt(x, k) ELSE Prim(Null)

\* (a variant that takes a text to include only itself)
IncludesOnlyItself(s, t) == s = t
\* String.prototype.includes: s = pre + t + post for some pre and post; the
\* texts of the model have at most MaxTextLen characters out of "a" and "b".
MaxTextLen == 2
RECURSIVE TextsOfLen(_)
TextsOfLen(n) ==
  IF n = 0 THEN {""} ELSE {t \o c : t \in TextsOfLen(n - 1), c \in {"a", "b"}}
Affixes == UNION {TextsOfLen(n) : n \in 0..(MaxTextLen - 1)}
StringIncludes(s, t) == \E pre \in Affixes, post \in Affixes : s = pre \o t \o post

\* hasItem's map: record.some(i => i.includes(item)) for a text item without
\* exactMatch, record.includes(item) otherwise
hasItemMap(record, item, exactMatch) ==
  IF item.text /\ ~exactMatch
  THEN \E i \in 1..Len(record) : StringIncludes(record[i].s, item.s)
  ELSE Includes(record, item)

\* hasKey's map (the keys are texts): Object.keys(record).some(k =>
\* k.includes(key)) without exactMatch, key in record otherwise
hasKeyMap(record, key, exactMatch) ==
  IF ~exactMatch
  THEN \E k \in DOMAIN record : StringIncludes(k, key)
  ELSE KeyIn(key, record)

\* The numbers NaN and Infinity, which a list of numbers may hold.
NaN == -1
Infinity == -2
AllItems == Items \cup {NaN, Infinity}

\* (a variant that returns the last matching element)
findLast(list, predicate) ==
  IF \A i \in 1..Len(list) : list[i] \notin predicate THEN Prim(Null)
  ELSE Prim(list[CHOOSE i \in 1..Len(list) :
                   /\ list[i] \in predicate
                   /\ \A j \in (i + 1)..Len(list) : list[j] \notin predicate])
\* Array.prototype.find(predicate): the first element the predicate accepts,
\* undefined (Null here) when there is none
find(list, predicate) ==
  IF \A i \in 1..Len(list) : list[i] \notin predicate THEN Prim(Null)
  ELSE Prim(list[CHOOSE i \in 1..Len(list) :
                   /\ list[i] \in predicate
                   /\ \A j \in 1..(i - 1) : list[j] \notin predicate])

\* items.filter(predicate): a new array, an object of its own
DerivedRef(x) == 0 - x.ref
Matching(x, predicate) ==
  Obj(DerivedRef(x), SelectSeq(x.val, LAMBDA item : item \in predicate))

\* JSON.stringify of an array of numbers, as the sequence of its element
\* texts: a finite number is written as itself, NaN and Infinity as null.
JSONstringify(list) ==
  [i \in 1..Len(list) |-> IF list[i] \in {NaN, Infinity} THEN Null ELSE list[i]]

\* distinctUntilChanged((prev, curr) => JSON.stringify(prev) === JSON.stringify(curr))
JSONDistinctPasses(st, x) ==
  ~st.dHas \/ JSONstringify(st.dKey.val) # JSONstringify(x.val)

\* One value x pushed through the operators ops[i..] of a subscription whose
\* state is st, the container's flag being `flag` when the filters run: the
\* subscription's new state, whether the observer is invoked, and with what.
RECURSIVE RunPipe(_, _, _, _, _)
RunPipe(ops, i, st, x, flag) ==
  IF i > Len(ops) THEN [st |-> st, out |-> TRUE, val |-> x]
  ELSE CASE ops[i] = "distinctUntilChanged" ->
              IF DistinctPasses(st, x)
              THEN RunPipe(ops, i + 1, [st EXCEPT !.dHas = TRUE, !.dKey = x], x, flag)
              ELSE [st |-> st, out |-> FALSE, val |-> x]
         [] ops[i] = "filter" ->
              IF FilterPasses(x, flag)
              THEN RunPipe(ops, i + 1, st, x, flag)
              ELSE [st |-> st, out |-> FALSE, val |-> x]
         [] ops[i] = "filterLength" ->
              IF FilterPasses(x, flag) /\ Len(x.val) > 0
              THEN RunPipe(ops, i + 1, st, x, flag)
              ELSE [st |-> st, out |-> FALSE, val |-> x]
         [] ops[i] = "filterKeys" ->
              IF FilterPasses(x, flag) /\ DOMAIN x.val # {}
              THEN RunPipe(ops, i + 1, st, x, flag)
              ELSE [st |-> st, out |-> FALSE, val |-> x]
         [] ops[i] = "skip" ->
              IF st.skipped < SkipCount
              THEN [st |-> [st EXCEPT !.skipped = @ + 1], out |-> FALSE, val |-> x]
              ELSE RunPipe(ops, i + 1, st, x, flag)
         [] ops[i] = "untilDestroyed" -> RunPipe(ops, i + 1, st, x, flag)
         [] ops[i] = "first" ->
              [st |-> [st EXCEPT !.live = FALSE, !.completed = TRUE], out |-> TRUE,
               val |-> x]
         [] ops[i] = "filterKey" ->
              IF FilterPasses(x, flag) /\ ~isNullOrUndefined(Lookup(x, st.key))
              THEN RunPipe(ops, i + 1, st, x, flag)
              ELSE [st |-> st, out |-> FALSE, val |-> x]
         [] ops[i] = "mapKey" -> RunPipe(ops, i + 1, st, Lookup(x, st.key), flag)
         [] ops[i] = "mapKeyOrUndefined" ->
              RunPipe(ops, i + 1, st, Lookup(x, st.key), flag)
         [] ops[i] = "mapFind" ->
              RunPipe(ops, i + 1, st, find(x.val, st.predicate), flag)
         [] ops[i] = "filterDefined" ->
              IF x # Prim(Null)
              THEN RunPipe(ops, i + 1, st, x, flag)
              ELSE [st |-> st, out |-> FALSE, val |-> x]
         [] ops[i] = "mapFilter" ->
              RunPipe(ops, i + 1, st, Matching(x, st.predicate), flag)
         [] ops[i] = "distinctJSON" ->
              IF JSONDistinctPasses(st, x)
              THEN RunPipe(ops, i + 1, [st EXCEPT !.dHas = TRUE, !.dKey = x], x, flag)
              ELSE [st |-> st, out |-> FALSE, val |-> x]
         [] ops[i] = "mapHasKeyPartial" ->
              RunPipe(ops, i + 1, st, Prim(hasKeyMap(x.val, st.key, FALSE)), flag)
         [] ops[i] = "mapHasItem" ->
              RunPipe(ops, i + 1, st, Prim(hasItemMap(x.val, st.item, TRUE)), flag)
         [] ops[i] = "mapHasItemPartial" ->
              RunPipe(ops, i + 1, st, Prim(hasItemMap(x.val, st.item, FALSE)), flag)
         [] ops[i] = "mapHasKey" ->
              RunPipe(ops, i + 1, st, Prim(KeyIn(st.key, x.val)), flag)

\* What one subscription does with a value the subject emits.
Emit(s, x, flag) ==
  IF s.live THEN RunPipe(Pipe(kind, s.mode), 1, s, x, flag)
  ELSE [st |-> s, out |-> FALSE, val |-> x]

\* An element that is a text or a number (`typeof item === 'string'` is
\* item.text), and the item of a subscription that has none.
TextItem(t) == [text |-> TRUE, s |-> t, n |-> 0]
NumItem(n) == [text |-> FALSE, s |-> "", n |-> n]
NoItem == NumItem(0)

\* BaseState.prepareSubscription: with a callerComponent the observable is
\* piped through untilDestroyed(callerComponent), so the component owns it.
\* (since, start and startFlag are ghosts: the calls made, the value and the
\* flag when the subscription is made; key is the `key` argument an
\* observable such as hasKey(key) closes over, predicate the set of the
\* elements that the `predicate` argument of stateOfItem / stateOfItems
\* accepts, item the `item` argument of hasItem.)
prepareSubscription(mode, pos, c, callerComponent) ==
  [mode |-> mode, pos |-> pos, comp |-> c,
   owner |-> IF callerComponent # NoComponent THEN callerComponent ELSE NoComponent,
   since |-> Len(history), start |-> subject, startFlag |-> bypassChangeDetection,
   live |-> TRUE, completed |-> FALSE,
   dHas |-> FALSE, dKey |-> Prim(Null), skipped |-> 0, key |-> NoKey,
   predicate |-> {}, item |-> NoItem]

\* (a variant that never tears the subscription down)
untilDestroyedNever(s, c) == s
\* untilDestroyed(c) = takeUntil(c's destroy notifier): completes the stream.
untilDestroyed(s, c) ==
  IF s.live /\ s.owner = c THEN [s EXCEPT !.live = FALSE, !.completed = TRUE] ELSE s

\* (a variant that goes through the subscriptions last to first)
IndicesBackwards(n) == [i \in 1..n |-> n + 1 - i]
\* The order in which Subject.next goes through its observers: that of
\* their subscription.
Indices(n) == [i \in 1..n |-> i]

\* Subject.next(x): every subscription, in subscription order, is handed x.
NextSubs(x, flag) == [i \in 1..Len(subs) |-> Emit(subs[i], x, flag).st]
NextDelivered(x, flag) ==
  LET hit == SelectSeq(Indices(Len(subs)), LAMBDA i : Emit(subs[i], x, flag).out)
  IN delivered \o [j \in 1..Len(hit) |->
                     [sub |-> hit[j], at |-> Len(history) + 1,
                      val |-> Emit(subs[hit[j]], x, flag).val, replay |-> FALSE]]

\* (a variant that emits x without storing it)
SubjectNextStale(x) == subject
\* BehaviorSubject.next(x): x becomes the current value, then is emitted.
SubjectNext(x) == x

\* The end of every mutator that broadcasts: the flag as last assigned, then
\* subject.next(x).  `op` and `suppress` are the public call and the
\* bypassChangeDetection argument its caller gave.
Publish(x, flag, op, suppress) ==
  /\ bypassChangeDetection' = flag
  /\ subject' = SubjectNext(x)
  /\ subs' = NextSubs(x, flag)
  /\ delivered' = NextDelivered(x, flag)
  /\ history' = Append(history, [op |-> op, suppress |-> suppress, flag |-> flag,
                                 val |-> x, bc |-> TRUE])

\* A mutator that returns before any subject.next: only the flag is assigned.
NoBroadcast(op, suppress) ==
  /\ bypassChangeDetection' = suppress
  /\ history' = Append(history, [op |-> op, suppress |-> suppress, flag |-> suppress,
                                 val |-> subject, bc |-> FALSE])
  /\ UNCHANGED <<subject, subs, delivered>>

\* The default of set's parameter `bypassChangeDetection = false`, which a
\* mutator calling this.set(x) with one argument gets.
DefaultBypass == FALSE

Used == Len(history) + Len(subs) + Cardinality({c \in Components : destroyed[c] # -1})
CanStep == Used < limit

\* ------------------------------------------------------- constructors
\* new State(initialValue?): new BehaviorSubject(initialValue ?? null);
\* the other classes, built without an initial value: [] and {}.
Construct(k, initialValue) ==
  CASE k = "State" -> Prim(initialValue)
    [] k = "ArrayState" -> Obj(1, << >>)
    [] OTHER -> Obj(1, EmptyMap)

InitialValues(k) == IF k = "State" THEN Values \cup {Null} ELSE {Null}

\* An instance of one of the classes `ks`, explored for `max` steps (an
\* initial value given to the constructor counts as one).
InitOf(ks, max) ==
  /\ kind \in ks
  /\ \E initialValue \in InitialValues(kind) :
       /\ subject = Construct(kind, initialValue)
       /\ constructed = Construct(kind, initialValue)
       /\ limit = IF initialValue = Null THEN max ELSE max - 1
  /\ bypassChangeDetection = FALSE
  /\ subs = << >>
  /\ destroyed = [c \in Components |-> -1]
  /\ history = << >>
  /\ delivered = << >>

\* ------------------------------------------------------------ mutators
\* The arguments callers give to set: for State a primitive; for the other
\* classes a new object, or the object the container holds (container.value).
InputLists == {<< >>, <<1>>, <<1, 2>>}
InputMaps == {EmptyMap, "a" :> 5, "a" :> 5 @@ "b" :> 6}
InputListMaps == {EmptyMap, "a" :> <<1>>, "a" :> <<1, 2>> @@ "b" :> << >>}
ListObjects(m) == [k \in DOMAIN m |-> Obj(FreshListRef(KeyIndex(k)), m[k])]

SetInputs(k) ==
  CASE k = "State" -> {Prim(v) : v \in Values \cup {Null}}
    [] k = "ArrayState" -> {Obj(FreshRef, l) : l \in InputLists} \cup {subject}
    [] k = "KeyValueState" -> {Obj(FreshRef, m) : m \in InputMaps} \cup {subject}
    [] k = "KeyValuesState" ->
         {Obj(FreshRef, ListObjects(m)) : m \in InputListMaps} \cup {subject}

\* set(value, bypassChangeDetection = false), the same in the four classes
Set(x, bypass) ==
  /\ CanStep
  /\ x \in SetInputs(kind)
  /\ Publish(x, bypass, "set", bypass)
  /\ UNCHANGED <<kind, destroyed, constructed, limit>>

\* (a variant in which each emission carries the flag it was made with)
FlagOfEmission(i, r, bypass, bypass2) == bypass
\* this.bypassChangeDetection as the filter of subscription i reads it when
\* the value of set(x, bypass) reaches it, the observer of subscription r
\* having called set(y, bypass2) when it was given that value: the field
\* holds what the last assignment left.
FlagRead(i, r, bypass, bypass2) == IF i <= r THEN bypass ELSE bypass2

\* State.set(x, bypass) when the observer of subscription r is
\*   v => { if (v === x) container.set(y, bypass2) }
\* subject.next(x) goes through the subscriptions in order; on reaching r it
\* invokes the observer, whose set(y, bypass2) assigns the flag and hands y
\* to every subscription before it returns; subject.next(x) then goes on to
\* the subscriptions after r.  The BehaviorSubject is left holding y.
SetReentrant(x, bypass, y, bypass2, r) ==
  /\ Used + 1 < limit
  /\ kind = "State"
  /\ x # y
  /\ r \in 1..Len(subs)
  /\ LET n == Len(subs)
         call == Len(history) + 1
         outer(st, i) == Emit(st[i], Prim(x), FlagRead(i, r, bypass, bypass2))
         st1 == [i \in 1..n |-> IF i <= r THEN outer(subs, i).st ELSE subs[i]]
         st2 == [i \in 1..n |-> Emit(st1[i], Prim(y), bypass2).st]
         st3 == [i \in 1..n |-> IF i > r THEN outer(st2, i).st ELSE st2[i]]
         hit1 == SelectSeq(Indices(n), LAMBDA i : i <= r /\ outer(subs, i).out)
         hit2 == SelectSeq(Indices(n), LAMBDA i : Emit(st1[i], Prim(y), bypass2).out)
         hit3 == SelectSeq(Indices(n), LAMBDA i : i > r /\ outer(st2, i).out)
     IN /\ outer(subs, r).out
        /\ subs' = st3
        /\ delivered' =
             delivered
             \o [j \in 1..Len(hit1) |->
                   [sub |-> hit1[j], at |-> call, val |-> Prim(x), replay |-> FALSE]]
             \o [j \in 1..Len(hit2) |->
                   [sub |-> hit2[j], at |-> call + 1, val |-> Prim(y), replay |-> FALSE]]
             \o [j \in 1..Len(hit3) |->
                   [sub |-> hit3[j], at |-> call, val |-> Prim(x), replay |-> FALSE]]
  /\ history' = history \o
       <<[op |-> "set", suppress |-> bypass, flag |-> bypass, val |-> Prim(x), bc |-> TRUE],
         [op |-> "set", suppress |-> bypass2, flag |-> bypass2, val |-> Prim(y), bc |-> TRUE]>>
  /\ subject' = SubjectNext(Prim(y))
  /\ bypassChangeDetection' = bypass2
  /\ UNCHANGED <<kind, destroyed, constructed, limit>>

\* ArrayState.set(list, bypassChangeDetection = false) for a new array
SetList(list, bypass) ==
  /\ CanStep
  /\ kind = "ArrayState"
  /\ Publish(Obj(FreshRef, list), bypass, "set", bypass)
  /\ UNCHANGED <<kind, destroyed, constructed, limit>>

\* ArrayState.add(value, unique?, bypassChangeDetection = false): pushes onto
\* the array it holds and calls this.set(newSet)
Add(v, unique, bypass) ==
  /\ CanStep
  /\ kind = "ArrayState"
  /\ IF (unique /\ ~Includes(value.val, v)) \/ ~unique
     THEN Publish(Obj(value.ref, Append(value.val, v)), DefaultBypass, "add", bypass)
     ELSE NoBroadcast("add", bypass)
  /\ UNCHANGED <<kind, destroyed, constructed, limit>>

\* ArrayState.remove(value, bypassChangeDetection = false):
\* this.set(newSet.filter(x => x !== value))
Remove(v, bypass) ==
  /\ CanStep
  /\ kind = "ArrayState"
  /\ Publish(Obj(FreshRef, Without(value.val, v)), DefaultBypass, "remove", bypass)
  /\ UNCHANGED <<kind, destroyed, constructed, limit>>

\* KeyValueState.setValue(key, value, bypassChangeDetection = false): a copy
\* of the mapping with the entry set, handed to subject.next
SetValue(k, v, bypass) ==
  /\ CanStep
  /\ kind = "KeyValueState"
  /\ Publish(Obj(FreshRef, WithKey(value.val, k, v)), bypass, "setValue", bypass)
  /\ UNCHANGED <<kind, destroyed, constructed, limit>>

\* KeyValueState.unset(key, bypassChangeDetection = false): deletes the entry
\* of the mapping it holds, handed to subject.next
Unset(k, bypass) ==
  /\ CanStep
  /\ kind = "KeyValueState"
  /\ Publish(Obj(value.ref, WithoutKey(value.val, k)), bypass, "unset", bypass)
  /\ UNCHANGED <<kind, destroyed, constructed, limit>>

\* KeyValueState.reset(bypassChangeDetection = false): subject.next({})
Reset(bypass) ==
  /\ CanStep
  /\ kind = "KeyValueState"
  /\ Publish(Obj(FreshRef, EmptyMap), bypass, "reset", bypass)
  /\ UNCHANGED <<kind, destroyed, constructed, limit>>

\* KeyValuesState.setValue(key, value, bypassChangeDetection = false): assigns
\* the entry in the mapping it holds, handed to subject.next
KVsSetValue(k, list, bypass) ==
  /\ CanStep
  /\ kind = "KeyValuesState"
  /\ Publish(Obj(value.ref, WithKey(value.val, k, Obj(FreshListRef(KeyIndex(k)), list))),
             bypass, "setValue", bypass)
  /\ UNCHANGED <<kind, destroyed, constructed, limit>>

\* KeyValuesState.removeValue(key, bypassChangeDetection = false)
KVsRemoveValue(k, bypass) ==
  /\ CanStep
  /\ kind = "KeyValuesState"
  /\ Publish(Obj(value.ref, WithoutKey(value.val, k)), bypass, "removeValue", bypass)
  /\ UNCHANGED <<kind, destroyed, constructed, limit>>

\* KeyValuesState.unset(key, bypassChangeDetection = false)
KVsUnset(k, bypass) ==
  /\ CanStep
  /\ kind = "KeyValuesState"
  /\ Publish(Obj(value.ref, WithoutKey(value.val, k)), bypass, "unset", bypass)
  /\ UNCHANGED <<kind, destroyed, constructed, limit>>

\* KeyValuesState.addToValue(key, value, unique?, bypassChangeDetection = false):
\* this.setValue(key, [...this.getValue(key) || [], value])
AddToValue(k, v, unique, bypass) ==
  /\ CanStep
  /\ kind = "KeyValuesState"
  /\ LET currentValue == IF k \in DOMAIN value.val THEN value.val[k].val ELSE << >>
     IN IF unique /\ k \in DOMAIN value.val /\ Includes(currentValue, v)
        THEN NoBroadcast("addToValue", bypass)
        ELSE Publish(Obj(value.ref,
                         WithKey(value.val, k,
                                 Obj(FreshListRef(KeyIndex(k)), Append(currentValue, v)))),
                     DefaultBypass, "addToValue", bypass)
  /\ UNCHANGED <<kind, destroyed, constructed, limit>>

\* KeyValuesState.removeFromValue(key, value, bypassChangeDetection = false):
\* newSet[key] = newSet[key].filter(x => x !== value); this.set(newSet)
RemoveFromValue(k, v, bypass) ==
  /\ CanStep
  /\ kind = "KeyValuesState"
  /\ IF k \notin DOMAIN value.val
     THEN NoBroadcast("removeFromValue", bypass)
     ELSE Publish(Obj(value.ref,
                      WithKey(value.val, k,
                              Obj(FreshListRef(KeyIndex(k)), Without(value.val[k].val, v)))),
                  DefaultBypass, "removeFromValue", bypass)
  /\ UNCHANGED <<kind, destroyed, constructed, limit>>

\* KeyValuesState.reset(bypassChangeDetection = false): this.set({}, bypass)
KVsReset(bypass) ==
  /\ CanStep
  /\ kind = "KeyValuesState"
  /\ Publish(Obj(FreshRef, EmptyMap), bypass, "reset", bypass)
  /\ UNCHANGED <<kind, destroyed, constructed, limit>>

\* ------------------------------------------------------ composite keys
\* A key part given to a *ByKeys method (`...keys: any[]`): a text, or null.
TextPart(t) == [isNull |-> FALSE, s |-> t]
NullPart == [isNull |-> TRUE, s |-> ""]
KeyParts == {TextPart("a"), TextPart("b"), NullPart}
KeyPartLists == UNION {[1..n -> KeyParts] : n \in 0..MaxParts}

\* private readonly _keySeparator = '####'
KeySeparator == "####"

\* strs.join(KeySeparator) for texts
RECURSIVE JoinStrings(_)
JoinStrings(strs) ==
  IF strs = << >> THEN ""
  ELSE IF Len(strs) = 1 THEN strs[1]
       ELSE strs[1] \o KeySeparator \o JoinStrings(Tail(strs))

\* String(x): null becomes the text "null"
StringOf(p) == IF p.isNull THEN "null" ELSE p.s
\* Array.prototype.join's conversion of an element: null and undefined
\* become the empty text
JoinElement(p) == IF p.isNull THEN "" ELSE p.s

\* keys.join(this._keySeparator), as the setters and unsetByKeys build the key
KeysJoin(keys) == JoinStrings([i \in 1..Len(keys) |-> JoinElement(keys[i])])
\* keys.map(String).join(this._keySeparator), as getValueByKeys builds it
KeysMapStringJoin(keys) == JoinStrings([i \in 1..Len(keys) |-> StringOf(keys[i])])

\* KeyValueState.getValueByKeys(...keys): this.value[key] (Null: undefined)
getValueByKeys(keys) ==
  IF KeysMapStringJoin(keys) \in DOMAIN value.val
  THEN value.val[KeysMapStringJoin(keys)] ELSE Null

\* KeyValueState.setValueByKeys(value, bypassChangeDetection = false, ...keys)
SetValueByKeys(v, bypass, keys) == SetValue(KeysJoin(keys), v, bypass)

\* KeyValueState.unsetByKeys(bypassChangeDetection = false, ...keys)
UnsetByKeys(bypass, keys) == Unset(KeysJoin(keys), bypass)

\* ------------------------------------------------- KeyValuesState.length
\* An element of a list: a value that is not an array, or an array of elements.
Leaf(n) == [arr |-> FALSE, v |-> n, items |-> << >>]
Arr(seq) == [arr |-> TRUE, v |-> 0, items |-> seq]

\* The lists and the mappings a KeyValuesState is given.
NestedLists ==
  { << >>,
    <<Leaf(1), Leaf(2)>>,
    <<Leaf(3)>>,
    <<Arr(<<Leaf(1), Leaf(2)>>), Leaf(3)>>,
    <<Arr(<< >>)>>,
    <<Arr(<<Arr(<<Leaf(1)>>)>>)>> }
NestedMaps == UNION {[D -> NestedLists] : D \in SUBSET Keys}

\* (a variant that counts the top-level items)
countTopLevel(arr) == Len(arr)
\* countArrayElements(arr): arr.reduce((count, item) =>
\*   count + (Array.isArray(item) ? countArrayElements(item) : 1), 0)
RECURSIVE countArrayElements(_)
countArrayElements(arr) ==
  IF arr = << >> THEN 0
  ELSE (IF Head(arr).arr THEN countArrayElements(Head(arr).items) ELSE 1)
         + countArrayElements(Tail(arr))

\* KeyValuesState.toArray: Object.values(this.value), the lists of the keys
toArray ==
  LET ks == SelectSeq(<<"a", "b">>, LAMBDA k : k \in DOMAIN value.val)
  IN [i \in 1..Len(ks) |-> Arr(value.val[ks[i]].val)]

\* KeyValuesState.length: countArrayElements(this.toArray)
length == countArrayElements(toArray)

\* A read of container.length (recorded in the ghost history; nothing of the
\* container changes).
Length ==
  /\ CanStep
  /\ kind = "KeyValuesState"
  /\ history' = Append(history, [op |-> "length", suppress |-> bypassChangeDetection,
                                 flag |-> bypassChangeDetection, val |-> subject,
                                 bc |-> FALSE, result |-> length])
  /\ UNCHANGED <<kind, subject, bypassChangeDetection, subs, destroyed, delivered,
                 constructed, limit>>

\* ------------------------------------------- subscribing, destroying
\* container.<mode>(observer, ...) with the component c passed as argument
\* number pos (pos = 0: no component passed).  untilDestroyed(undefined)
\* throws, so a method with it in its pipe subscribes only when given a
\* callerComponent.  The BehaviorSubject replays its current value to the
\* new subscriber.
Subscribe(mode, pos, c) ==
  /\ CanStep
  /\ Len(subs) < MaxSubs
  /\ mode \in Modes(kind)
  /\ \/ pos = 0 /\ c = NoComponent
     \/ pos \in ArgPositions(kind, mode) /\ c \in Components /\ destroyed[c] = -1
  /\ \A i \in 1..Len(Pipe(kind, mode)) :
       Pipe(kind, mode)[i] = "untilDestroyed" =>
         BoundCallerComponent(kind, mode, pos, c) # NoComponent
  /\ LET s0 == prepareSubscription(mode, pos, c, BoundCallerComponent(kind, mode, pos, c))
         r == Emit(s0, subject, bypassChangeDetection)
     IN /\ subs' = Append(subs, r.st)
        /\ delivered' = IF r.out
                        THEN Append(delivered, [sub |-> Len(subs) + 1, at |-> Len(history),
                                                val |-> r.val, replay |-> TRUE])
                        ELSE delivered
  /\ UNCHANGED <<kind, subject, bypassChangeDetection, destroyed, history, constructed, limit>>

\* container.hasKey(k).subscribe(observer) on a KeyValueState or a
\* KeyValuesState (exactMatch left at its default, true): the observable
\* maps each record to `k in record` and drops repeats.
SubscribeHasKey(k) ==
  /\ CanStep
  /\ Len(subs) < MaxSubs
  /\ kind \in {"KeyValueState", "KeyValuesState"}
  /\ LET s0 == [prepareSubscription("hasKey", 0, NoComponent, NoComponent) EXCEPT !.key = k]
         r == Emit(s0, subject, bypassChangeDetection)
     IN /\ subs' = Append(subs, r.st)
        /\ delivered' = IF r.out
                        THEN Append(delivered, [sub |-> Len(subs) + 1, at |-> Len(history),
                                                val |-> r.val, replay |-> TRUE])
                        ELSE delivered
  /\ UNCHANGED <<kind, subject, bypassChangeDetection, destroyed, history, constructed, limit>>

\* A subscription, made without a component, to an observable that closes
\* over the key k; the current value is replayed through it.
SubscribeKeyed(mode, k) ==
  /\ CanStep
  /\ Len(subs) < MaxSubs
  /\ LET s0 == [prepareSubscription(mode, 0, NoComponent, NoComponent) EXCEPT !.key = k]
         r == Emit(s0, subject, bypassChangeDetection)
     IN /\ subs' = Append(subs, r.st)
        /\ delivered' = IF r.out
                        THEN Append(delivered, [sub |-> Len(subs) + 1, at |-> Len(history),
                                                val |-> r.val, replay |-> TRUE])
                        ELSE delivered
  /\ UNCHANGED <<kind, subject, bypassChangeDetection, destroyed, history, constructed, limit>>

\* A subscription to an observable that closes over a predicate.
SubscribePredicate(mode, p) ==
  /\ CanStep
  /\ Len(subs) < MaxSubs
  /\ LET s0 == [prepareSubscription(mode, 0, NoComponent, NoComponent)
                  EXCEPT !.predicate = p]
         r == Emit(s0, subject, bypassChangeDetection)
     IN /\ subs' = Append(subs, r.st)
        /\ delivered' = IF r.out
                        THEN Append(delivered, [sub |-> Len(subs) + 1, at |-> Len(history),
                                                val |-> r.val, replay |-> TRUE])
                        ELSE delivered
  /\ UNCHANGED <<kind, subject, bypassChangeDetection, destroyed, history, constructed, limit>>

\* arrayState.stateOfItem(predicate).subscribe(observer)
SubscribeStateOfItem(p) == kind = "ArrayState" /\ SubscribePredicate("stateOfItem", p)

\* arrayState.stateOfItems(predicate).subscribe(observer)
SubscribeStateOfItems(p) == kind = "ArrayState" /\ SubscribePredicate("stateOfItems", p)

\* container.hasKey(k, false).subscribe(observer)
SubscribeHasKeyPartial(k) ==
  /\ kind \in {"KeyValueState", "KeyValuesState"}
  /\ SubscribeKeyed("hasKeyPartial", k)

\* arrayState.hasItem(item, exactMatch).subscribe(observer)
SubscribeHasItem(item, exactMatch) ==
  /\ CanStep
  /\ Len(subs) < MaxSubs
  /\ kind = "ArrayState"
  /\ LET s0 == [prepareSubscription(IF exactMatch THEN "hasItem" ELSE "hasItemPartial",
                                    0, NoComponent, NoComponent)
                  EXCEPT !.item = item]
         r == Emit(s0, subject, bypassChangeDetection)
     IN /\ subs' = Append(subs, r.st)
        /\ delivered' = IF r.out
                        THEN Append(delivered, [sub |-> Len(subs) + 1, at |-> Len(history),
                                                val |-> r.val, replay |-> TRUE])
                        ELSE delivered
  /\ UNCHANGED <<kind, subject, bypassChangeDetection, destroyed, history, constructed, limit>>

\* container.stateOfKey(k, changedStateOnly).subscribe(observer)
SubscribeStateOfKey(k, changedStateOnly) ==
  /\ kind \in {"KeyValueState", "KeyValuesState"}
  /\ SubscribeKeyed(IF changedStateOnly THEN "stateOfKey" ELSE "stateOfKeyEvery", k)

\* KeyValueState.onValueChange(k, observer, error, complete, filterValues)
SubscribeOnValueChange(k, filterValues) ==
  /\ kind = "KeyValueState"
  /\ SubscribeKeyed(IF filterValues THEN "onValueChange" ELSE "onValueChangeUnfiltered", k)

\* The component c, which passed itself to some subscription, is destroyed.
Destroy(c) ==
  /\ CanStep
  /\ destroyed[c] = -1
  /\ \E i \in 1..Len(subs) : subs[i].comp = c
  /\ destroyed' = [destroyed EXCEPT ![c] = Len(history)]
  /\ subs' = [i \in 1..Len(subs) |-> untilDestroyed(subs[i], c)]
  /\ UNCHANGED <<kind, subject, bypassChangeDetection, history, delivered, constructed, limit>>

AllModes == UNION {Modes(k) : k \in Kinds}

\* ------------------------------------------------------ specifications
\* The mutator calls, with keys drawn from K, list elements from I and list
\* arguments from L.
Mutate(K, I, L) ==
  \/ \E x \in SetInputs(kind), b \in BOOLEAN : Set(x, b)
  \/ \E v \in I, u \in BOOLEAN, b \in BOOLEAN : Add(v, u, b)
  \/ \E v \in I, b \in BOOLEAN : Remove(v, b)
  \/ \E k \in K, v \in Values, b \in BOOLEAN : SetValue(k, v, b)
  \/ \E k \in K, b \in BOOLEAN : Unset(k, b)
  \/ \E b \in BOOLEAN : Reset(b)
  \/ \E k \in K, l \in L, b \in BOOLEAN : KVsSetValue(k, l, b)
  \/ \E k \in K, b \in BOOLEAN : KVsRemoveValue(k, b)
  \/ \E k \in K, b \in BOOLEAN : KVsUnset(k, b)
  \/ \E k \in K, v \in I, u \in BOOLEAN, b \in BOOLEAN : AddToValue(k, v, u, b)
  \/ \E k \in K, v \in I, b \in BOOLEAN : RemoveFromValue(k, v, b)
  \/ \E b \in BOOLEAN : KVsReset(b)

\* Every class, subscriptions made without a component.
Init == InitOf(Kinds, MaxSteps)
Next ==
  \/ Mutate({"a"}, {1}, {<< >>, <<1>>})
  \/ \E mode \in AllModes : Subscribe(mode, 0, NoComponent)
Spec == Init /\ [][Next]_vars

\* A State, subscriptions made without a component.
InitState == InitOf({"State"}, MaxStateSteps)
NextState ==
  \/ \E x \in SetInputs(kind), b \in BOOLEAN : Set(x, b)
  \/ \E mode \in AllModes : Subscribe(mode, 0, NoComponent)
SpecState == InitState /\ [][NextState]_vars

\* A State that is only given set(x), the flag left at its default, for the
\* longer call sequences; subscriptions made without a component.
InitScenario == InitOf({"State"}, MaxScenarioSteps)
NextScenario ==
  \/ \E x \in SetInputs(kind) : Set(x, DefaultBypass)
  \/ \E mode \in AllModes : Subscribe(mode, 0, NoComponent)
SpecScenario == InitScenario /\ [][NextScenario]_vars

\* A State or an ArrayState given set(x, flag), with the subscriptions that
\* deliver every qualifying value and those that skip the first.
SecondModes == {"onSet", "onChange", "onFromSecondSet", "onFromSecondChange"}
InitSecond == InitOf({"State", "ArrayState"}, MaxSecondSteps)
NextSecond ==
  \/ \E x \in SetInputs(kind), b \in BOOLEAN : Set(x, b)
  \/ \E mode \in SecondModes : Subscribe(mode, 0, NoComponent)
SpecSecond == InitSecond /\ [][NextSecond]_vars

\* A KeyValueState: its mutators on one key, its subscriptions made without
\* a component or with one passed as callerComponent, and hasKey.
InitKV == InitOf({"KeyValueState"}, MaxKVSteps)
NextKV ==
  \/ \E x \in SetInputs(kind), b \in BOOLEAN : Set(x, b)
  \/ \E v \in Values, b \in BOOLEAN : SetValue("a", v, b)
  \/ \E b \in BOOLEAN : Unset("a", b)
  \/ \E b \in BOOLEAN : Reset(b)
  \/ \E mode \in Modes("KeyValueState") : Subscribe(mode, 0, NoComponent)
  \/ \E mode \in Modes("KeyValueState") : Subscribe(mode, 4, 1)
  \/ SubscribeHasKey("a")
SpecKV == InitKV /\ [][NextKV]_vars

\* A KeyValueState addressed by composite keys.
InitKeys == InitOf({"KeyValueState"}, MaxKeysSteps)
NextKeys ==
  \/ \E v \in Values, b \in BOOLEAN, keys \in KeyPartLists : SetValueByKeys(v, b, keys)
  \/ \E b \in BOOLEAN, keys \in KeyPartLists : UnsetByKeys(b, keys)
SpecKeys == InitKeys /\ [][NextKeys]_vars

\* A KeyValueState given composite keys whose parts are texts of one or two
\* characters, "#" among them: no part contains the separator.
ShortParts == {TextPart("a"), TextPart("b"), TextPart("a#"), TextPart("#b")}
ShortPartLists == UNION {[1..n -> ShortParts] : n \in 0..MaxParts}
InitShortParts == InitOf({"KeyValueState"}, MaxKeysSteps)
NextShortParts ==
  \E v \in Values, keys \in ShortPartLists : SetValueByKeys(v, DefaultBypass, keys)
SpecShortParts == InitShortParts /\ [][NextShortParts]_vars

\* A KeyValuesState and the streams of one of its keys.
InitKVsKey == InitOf({"KeyValuesState"}, MaxKVsKeySteps)
NextKVsKey ==
  \/ \E k \in Keys, l \in {<<1>>, <<1, 2>>}, b \in BOOLEAN : KVsSetValue(k, l, b)
  \/ \E b \in BOOLEAN : KVsUnset("a", b)
  \/ \E c \in BOOLEAN : SubscribeStateOfKey("a", c)
SpecKVsKey == InitKVsKey /\ [][NextKVsKey]_vars

\* A KeyValuesState with two keys, whose lists are added to and removed
\* from.
InitKVsLists == InitOf({"KeyValuesState"}, MaxKVsListsSteps)
NextKVsLists ==
  \/ \E k \in Keys, v \in Items, u \in BOOLEAN, b \in BOOLEAN : AddToValue(k, v, u, b)
  \/ \E k \in Keys, v \in Items, b \in BOOLEAN : RemoveFromValue(k, v, b)
SpecKVsLists == InitKVsLists /\ [][NextKVsLists]_vars

\* A KeyValuesState built with an initial mapping of (nested) lists, whose
\* length is read.
InitLength ==
  /\ kind = "KeyValuesState"
  /\ \E m \in NestedMaps :
       /\ subject = Obj(1, [k \in DOMAIN m |-> Obj(10 + KeyIndex(k), m[k])])
       /\ constructed = subject
  /\ limit = MaxLengthSteps
  /\ bypassChangeDetection = FALSE
  /\ subs = << >>
  /\ destroyed = [c \in Components |-> -1]
  /\ history = << >>
  /\ delivered = << >>
NextLength ==
  \/ Length
  \/ \E k \in Keys, l \in NestedLists : KVsSetValue(k, l, DefaultBypass)
  \/ \E k \in Keys : KVsUnset(k, DefaultBypass)
  \/ KVsReset(DefaultBypass)
SpecLength == InitLength /\ [][NextLength]_vars

\* An ArrayState of numbers and the streams of the elements that a
\* predicate accepts.
ItemLists == {<< >>, <<1>>, <<2, 1>>, <<NaN>>, <<Infinity>>}
Predicates == {{1}, Items, AllItems}
InitItems == InitOf({"ArrayState"}, MaxItemsSteps)
NextItems ==
  \/ \E list \in ItemLists, b \in BOOLEAN : SetList(list, b)
  \/ \E v \in Items : Add(v, FALSE, DefaultBypass)
  \/ \E v \in Items : Remove(v, DefaultBypass)
  \/ \E p \in Predicates : SubscribeStateOfItem(p)
  \/ \E p \in Predicates : SubscribeStateOfItems(p)
SpecItems == InitItems /\ [][NextItems]_vars

\* An ArrayState<string> built with ['ab'], an ArrayState<number> built with
\* [1], a KeyValueState and a KeyValuesState, with their hasItem and hasKey
\* streams. The elements, and the items asked for, are of the type of the
\* element the ArrayState was built with.
Texts == {"a", "b", "ab"}
TypedItems ==
  IF kind # "ArrayState" THEN {}
  ELSE IF constructed.val[1].text THEN {TextItem(t) : t \in Texts}
       ELSE {NumItem(n) : n \in Items}
InitHasItem ==
  /\ kind \in {"ArrayState", "KeyValueState", "KeyValuesState"}
  /\ \E initialValue \in {<<TextItem("ab")>>, <<NumItem(1)>>} :
       /\ subject = IF kind = "ArrayState" THEN Obj(1, initialValue) ELSE Obj(1, EmptyMap)
       /\ constructed = subject
  /\ limit = MaxHasItemSteps
  /\ bypassChangeDetection = FALSE
  /\ subs = << >>
  /\ destroyed = [c \in Components |-> -1]
  /\ history = << >>
  /\ delivered = << >>
NextHasItem ==
  \/ \E item \in TypedItems : Add(item, FALSE, DefaultBypass)
  \/ \E item \in TypedItems : Remove(item, DefaultBypass)
  \/ \E item \in TypedItems, exactMatch \in BOOLEAN : SubscribeHasItem(item, exactMatch)
  \/ \E k \in Texts, v \in Values : SetValue(k, v, DefaultBypass)
  \/ \E k \in Texts : Unset(k, DefaultBypass)
  \/ \E k \in Texts : KVsSetValue(k, <<1>>, DefaultBypass)
  \/ \E k \in Texts : KVsUnset(k, DefaultBypass)
  \/ \E k \in Texts : SubscribeHasKey(k)
  \/ \E k \in Texts : SubscribeHasKeyPartial(k)
SpecHasItem == InitHasItem /\ [][NextHasItem]_vars

\* A State with raw and onSet subscribers, one of whose observers may call
\* set while it is being invoked; the calls made from outside an observer
\* leave the flag at its default.
ReentrantModes == {"state", "onSet"}
InitReentrant == InitOf({"State"}, MaxReentrantSteps)
NextReentrant ==
  \/ \E v \in Values : Set(Prim(v), DefaultBypass)
  \/ \E x \in Values, y \in Values, b \in BOOLEAN, b2 \in BOOLEAN, r \in 1..MaxSubs :
       SetReentrant(x, b, y, b2, r)
  \/ \E mode \in ReentrantModes : Subscribe(mode, 0, NoComponent)
SpecReentrant == InitReentrant /\ [][NextReentrant]_vars

\* A KeyValueState and the streams of one of its keys.
InitKVKey == InitOf({"KeyValueState"}, MaxKVKeySteps)
NextKVKey ==
  \/ \E v \in Values, b \in BOOLEAN : SetValue("a", v, b)
  \/ \E b \in BOOLEAN : Unset("a", b)
  \/ \E b \in BOOLEAN : Reset(b)
  \/ \E c \in BOOLEAN : SubscribeStateOfKey("a", c)
  \/ \E f \in BOOLEAN : SubscribeOnValueChange("a", f)
SpecKVKey == InitKVKey /\ [][NextKVKey]_vars

\* A State whose onSet and onChange subscriptions are made by components,
\* which are destroyed.
OwnerModes == {"onSet", "onChange"}
InitOwner == InitOf({"State"}, MaxOwnerSteps)
NextOwner ==
  \/ \E x \in SetInputs(kind), b \in BOOLEAN : Set(x, b)
  \/ \E mode \in OwnerModes, pos \in {0, 2, 4}, c \in Components \cup {NoComponent} :
       Subscribe(mode, pos, c)
  \/ \E c \in Components : Destroy(c)
SpecOwner == InitOwner /\ [][NextOwner]_vars

\* ------------------------------------------------- reading the ghosts
Last(seq) == seq[Len(seq)]

\* x is not JavaScript's null.
NonNull(x) == ~(x.ref = 0 /\ x.val = Null)

\* The observer of subscription s was invoked with the value broadcast by
\* the n-th call.
Got(s, n) ==
  \E d \in 1..Len(delivered) :
    /\ delivered[d].sub = s
    /\ delivered[d].at = n
    /\ ~delivered[d].replay
    /\ delivered[d].val = history[n].val

\* The observer of subscription s was invoked when s was made (the replay of
\* the current value).
GotReplay(s) ==
  \E d \in 1..Len(delivered) : delivered[d].sub = s /\ delivered[d].replay

\* The invocations of subscription s's observer, and the values it was given.
Invocations(s) == SelectSeq(delivered, LAMBDA d : d.sub = s)
Log(s) == [j \in 1..Len(Invocations(s)) |-> Invocations(s)[j].val]

\* The calls that subscription s, made before them, could observe.
CallsSeenBy(s) == (subs[s].since + 1)..Len(history)

\* The n-th call was set(v, suppress) for the primitive or object v.
IsSet(n, suppress) == history[n].op = "set" /\ history[n].suppress = suppress

\* --------------------------------------------------------------- C1
\* C1: in every reachable state of each of the four containers `value` is
\* the value of the most recent broadcast (in particular, right after
\* set(v, flag), it is v), and it is the value a subscriber of the raw
\* stream was last given.
C1_ReadAfterWrite ==
  /\ \A n \in 1..Len(history) :
       (history[n].bc /\ \A m \in (n + 1)..Len(history) : ~history[m].bc)
         => value = history[n].val
  /\ (\A m \in 1..Len(history) : ~history[m].bc) => value = constructed
  /\ \A s \in 1..Len(subs) :
       subs[s].mode = "state" => Last(Log(s)) = value

C1_Witness ==
  /\ kind = "KeyValuesState"
  /\ Len(history) = 2
  /\ IsSet(2, TRUE)
  /\ history[2].val # history[1].val
  /\ value = history[2].val
  /\ \E s \in 1..Len(subs) : subs[s].mode = "state" /\ subs[s].since = 0

\* --------------------------------------------------------------- C2
\* C2: on a State, for two consecutive calls set(v), set(v) with the same
\* non-null v and no suppression, an onSet subscriber registered beforehand
\* is invoked for both and an onChange subscriber registered beforehand is
\* not invoked for the second.
C2_OnSetTwiceOnChangeOnce ==
  \A n \in 1..(Len(history) - 1) :
    ( /\ kind = "State"
      /\ IsSet(n, FALSE) /\ IsSet(n + 1, FALSE)
      /\ history[n].val = history[n + 1].val
      /\ NonNull(history[n].val) )
    => \A s \in 1..Len(subs) :
         subs[s].since < n =>
           /\ subs[s].mode = "onSet" => Got(s, n) /\ Got(s, n + 1)
           /\ subs[s].mode = "onChange" => ~Got(s, n + 1)

C2_Witness ==
  /\ kind = "State"
  /\ Len(subs) = 2 /\ subs[1].mode = "onSet" /\ subs[2].mode = "onChange"
  /\ subs[1].since = 0 /\ subs[2].since = 0
  /\ Len(history) = 2 /\ IsSet(1, FALSE) /\ IsSet(2, FALSE)
  /\ history[1].val = Prim(5) /\ history[2].val = Prim(5)
  /\ Log(1) = <<Prim(5), Prim(5)>>
  /\ Log(2) = <<Prim(5)>>

\* --------------------------------------------------------------- C3
\* C3: a subscription made in the two-argument form onChange(callback,
\* component) or onSet(callback, component) is not invoked for any set made
\* after the component was destroyed.
C3_TwoArgumentFormTornDown ==
  \A s \in 1..Len(subs) :
    (subs[s].pos = 2 /\ destroyed[subs[s].comp] # -1)
      => \A n \in CallsSeenBy(s) : n > destroyed[subs[s].comp] => ~Got(s, n)

\* --------------------------------------------------------------- C4
\* C4: when the descriptor given to prepareSubscription carries an owner,
\* nothing is delivered to that observer after the owner was destroyed; a
\* subscription on the same container without an owner, or with an owner
\* that is alive, is given every broadcast that qualifies (for onSet: non-null
\* with the flag false; for onChange: also different from the value before).
Before(s, n) == IF n = subs[s].since + 1 THEN subs[s].start ELSE history[n - 1].val

C4_OwnerScopedTeardown ==
  \A s \in 1..Len(subs) :
    LET o == subs[s].owner IN
    /\ (o # NoComponent /\ destroyed[o] # -1)
         => \A n \in CallsSeenBy(s) : n > destroyed[o] => ~Got(s, n)
    /\ (o = NoComponent \/ destroyed[o] = -1)
         => \A n \in CallsSeenBy(s) :
              ( /\ NonNull(history[n].val)
                /\ ~history[n].flag
                /\ subs[s].mode = "onChange" => history[n].val # Before(s, n) )
              => Got(s, n)

C4_Witness ==
  /\ Len(subs) = 2
  /\ subs[1].owner = 1 /\ subs[2].owner = 2
  /\ destroyed[1] = 0 /\ destroyed[2] = -1
  /\ Len(history) = 1 /\ history[1].val = Prim(5) /\ ~history[1].flag
  /\ ~Got(1, 1) /\ Got(2, 1)

\* --------------------------------------------------------------- C5
\* C5: the broadcast of ArrayState.add / remove and of KeyValuesState.addToValue
\* / removeFromValue called with suppress = true is delivered to no onSet and
\* no onChange subscriber.
C5_MutatorSuppressHonoured ==
  \A n \in 1..Len(history) :
    ( /\ history[n].op \in {"add", "remove", "addToValue", "removeFromValue"}
      /\ history[n].suppress
      /\ history[n].bc )
    => \A s \in 1..Len(subs) :
         subs[s].mode \in {"onSet", "onChange"} => ~Got(s, n)

\* --------------------------------------------------------------- C6
\* C6: after set(v, suppress = true) on any container `value` is v, every
\* subscriber of the raw `state` stream made before the call was given v,
\* and no onChange, onFirstChange or onFromSecondChange subscriber was
\* invoked for that broadcast.
C6_SuppressedSet ==
  \A n \in 1..Len(history) :
    IsSet(n, TRUE) =>
      /\ n = Len(history) => value = history[n].val
      /\ \A s \in 1..Len(subs) :
           subs[s].since < n =>
             /\ subs[s].mode = "state" => Got(s, n)
             /\ subs[s].mode \in {"onChange", "onFirstChange", "onFromSecondChange"}
                  => ~Got(s, n)

C6_Witness ==
  /\ kind = "ArrayState"
  /\ Len(subs) = 2 /\ subs[1].mode = "state" /\ subs[2].mode = "onChange"
  /\ Len(history) = 1 /\ IsSet(1, TRUE) /\ history[1].val.val = <<1>>
  /\ value.val = <<1>>
  /\ Got(1, 1) /\ ~Got(2, 1)

\* --------------------------------------------------------------- C7
\* C7: an onSet subscriber is invoked for a broadcast (the replay when it
\* subscribes included) if and only if the value is neither null nor
\* undefined and the flag is false when it is delivered; so the broadcast of
\* set(v, suppress = true) is not delivered to it.
C7_OnSetIff ==
  \A s \in 1..Len(subs) :
    subs[s].mode = "onSet" =>
      /\ GotReplay(s) <=> (NonNull(subs[s].start) /\ ~subs[s].startFlag)
      /\ \A n \in CallsSeenBy(s) :
           /\ history[n].bc =>
                (Got(s, n) <=> (NonNull(history[n].val) /\ ~history[n].flag))
           /\ ~history[n].bc => ~Got(s, n)
           /\ IsSet(n, TRUE) => ~Got(s, n)

C7_Witness ==
  /\ kind = "State"
  /\ Len(subs) = 1 /\ subs[1].mode = "onSet" /\ subs[1].since = 0
  /\ Len(history) = 2
  /\ IsSet(1, TRUE) /\ history[1].val = Prim(5) /\ ~Got(1, 1)
  /\ IsSet(2, FALSE) /\ history[2].val = Prim(5) /\ Got(1, 2)

\* --------------------------------------------------------------- C8
\* C8: the broadcast of set(v, suppress = true) with a non-null v is
\* delivered to the onSet subscribers and not to the onChange subscribers.
C8_SuppressedSetReachesOnSet ==
  \A n \in 1..Len(history) :
    (IsSet(n, TRUE) /\ NonNull(history[n].val))
    => \A s \in 1..Len(subs) :
         subs[s].since < n =>
           /\ subs[s].mode = "onSet" => Got(s, n)
           /\ subs[s].mode = "onChange" => ~Got(s, n)

\* --------------------------------------------------------------- C9
\* C9: on a State built without an initial value an onSet or onChange
\* subscriber is given nothing when it subscribes and nothing for set(null);
\* for set(null), set(5), set(5), set(6) an onChange subscriber made
\* beforehand is given exactly 5 then 6; and no subscriber other than one of
\* the raw stream is ever invoked with null.
Scenario9 ==
  /\ Len(history) >= 4
  /\ \A n \in 1..4 : IsSet(n, FALSE)
  /\ history[1].val = Prim(Null) /\ history[2].val = Prim(5)
  /\ history[3].val = Prim(5) /\ history[4].val = Prim(6)

C9_NullFilteredAndScenario ==
  /\ \A s \in 1..Len(subs) :
       subs[s].mode \in {"onSet", "onChange"} =>
         /\ (constructed = Prim(Null) /\ subs[s].since = 0) => ~GotReplay(s)
         /\ \A n \in CallsSeenBy(s) : ~NonNull(history[n].val) => ~Got(s, n)
         /\ ( /\ subs[s].mode = "onChange" /\ subs[s].since = 0
              /\ constructed = Prim(Null) /\ Scenario9 )
            => SelectSeq(Invocations(s), LAMBDA d : d.at <= 4)
                 = << [sub |-> s, at |-> 2, val |-> Prim(5), replay |-> FALSE],
                      [sub |-> s, at |-> 4, val |-> Prim(6), replay |-> FALSE] >>
  /\ \A d \in 1..Len(delivered) :
       subs[delivered[d].sub].mode # "state" => NonNull(delivered[d].val)

C9_Witness ==
  /\ kind = "State" /\ constructed = Prim(Null)
  /\ Len(subs) = 1 /\ subs[1].mode = "onChange" /\ subs[1].since = 0
  /\ Len(history) = 4 /\ Scenario9
  /\ Log(1) = <<Prim(5), Prim(6)>>

\* --------------------------------------------------------------- C10
\* C10: an onFirstSet or onFirstChange subscriber of a State or a
\* KeyValuesState is given at most one value: the first broadcast, the replay
\* when it subscribes counted, that is non-null while the flag is false; it
\* then completes.
Qualifying(s) ==
  {n \in CallsSeenBy(s) :
     history[n].bc /\ NonNull(history[n].val) /\ ~history[n].flag}
ReplayQualifies(s) == NonNull(subs[s].start) /\ ~subs[s].startFlag

C10_FirstQualifyingOnly ==
  \A s \in 1..Len(subs) :
    ( /\ kind \in {"State", "KeyValuesState"}
      /\ subs[s].mode \in {"onFirstSet", "onFirstChange"} )
    => /\ Len(Invocations(s)) <= 1
       /\ ReplayQualifies(s) => (GotReplay(s) /\ subs[s].completed)
       /\ (~ReplayQualifies(s) /\ Qualifying(s) # {})
            => /\ subs[s].completed
               /\ \A n \in Qualifying(s) :
                    (\A m \in Qualifying(s) : n <= m) => Got(s, n)
       /\ (~ReplayQualifies(s) /\ Qualifying(s) = {}) => Invocations(s) = << >>

\* --------------------------------------------------------------- C11
\* C11: on a State or an ArrayState, when an onChange and an
\* onFromSecondChange subscriber are registered at the same point, what
\* onFromSecondChange is given is what onChange is given without its first
\* element, whatever set calls follow; the same holds of onFromSecondSet
\* and onSet.
Given(s) ==
  [j \in 1..Len(Invocations(s)) |->
     [at |-> Invocations(s)[j].at, val |-> Invocations(s)[j].val]]
AllButFirst(seq) == IF seq = << >> THEN << >> ELSE Tail(seq)
SamePoint(s, t) == subs[s].since = subs[t].since

C11_FromSecondIsTail ==
  \A s, t \in 1..Len(subs) :
    ( /\ kind \in {"State", "ArrayState"}
      /\ SamePoint(s, t)
      /\ \/ subs[s].mode = "onChange" /\ subs[t].mode = "onFromSecondChange"
         \/ subs[s].mode = "onSet" /\ subs[t].mode = "onFromSecondSet" )
    => Given(t) = AllButFirst(Given(s))

C11_Witness ==
  /\ kind = "ArrayState"
  /\ Len(subs) = 2 /\ SamePoint(1, 2)
  /\ subs[1].mode = "onChange" /\ subs[2].mode = "onFromSecondChange"
  /\ Len(history) = 2
  /\ Len(Given(1)) = 3
  /\ Len(Given(2)) = 2 /\ Given(2) = Tail(Given(1))

\* --------------------------------------------------------------- C12
\* C12: on a KeyValueState, when an onChange and an onFromSecondChange
\* subscriber are registered at the same point, what onFromSecondChange is
\* given is what onChange is given without its first element, whatever set,
\* setValue, unset and reset calls follow (a broadcast onChange drops as a
\* repeat is not given to onFromSecondChange either).
C12_KVFromSecondIsTail ==
  \A s, t \in 1..Len(subs) :
    ( /\ kind = "KeyValueState"
      /\ SamePoint(s, t)
      /\ subs[s].mode = "onChange" /\ subs[t].mode = "onFromSecondChange" )
    => Given(t) = AllButFirst(Given(s))

\* --------------------------------------------------------------- C13
\* C13: when ArrayState.add appends an element (suppress = false), every
\* subscriber of the raw stream, every onSet subscriber and every onChange
\* subscriber registered beforehand is invoked with the list that contains
\* the new element.
Held(n) == IF n = 1 THEN constructed ELSE history[n - 1].val

C13_AddBroadcastToAll ==
  \A n \in 1..Len(history) :
    ( /\ kind = "ArrayState"
      /\ history[n].op = "add" /\ history[n].bc /\ ~history[n].suppress )
    => /\ Len(history[n].val.val) = Len(Held(n).val) + 1
       /\ \A s \in 1..Len(subs) :
            (subs[s].since < n /\ subs[s].mode \in {"state", "onSet", "onChange"})
              => Got(s, n)

\* --------------------------------------------------------------- C14
\* C14: every call of KeyValuesState's setValue, addToValue, removeFromValue,
\* unset or removeValue, and of KeyValueState's setValue or unset, made with
\* suppress = false and changing the mapping's content, has each onChange
\* subscriber registered beforehand invoked with the updated mapping.
Content(x) ==
  IF kind = "KeyValuesState" THEN [k \in DOMAIN x.val |-> x.val[k].val] ELSE x.val

C14_MappingChangeReachesOnChange ==
  \A n \in 1..Len(history) :
    ( /\ \/ /\ kind = "KeyValuesState"
            /\ history[n].op \in {"setValue", "addToValue", "removeFromValue",
                                  "unset", "removeValue"}
         \/ /\ kind = "KeyValueState"
            /\ history[n].op \in {"setValue", "unset"}
      /\ ~history[n].suppress
      /\ Content(history[n].val) # Content(Held(n)) )
    => \A s \in 1..Len(subs) :
         (subs[s].since < n /\ subs[s].mode = "onChange") => Got(s, n)

\* --------------------------------------------------------------- C15
\* C15: ArrayState.add(v, unique = true) on a list that already holds v
\* leaves the list and its length as they are and broadcasts nothing, however
\* often it is repeated; add(v, unique = false) appends one more v, so the
\* length grows by exactly one with each call.
Holds(list, v) == \E i \in 1..Len(list) : list[i] = v

C15_UniqueAddIdempotent ==
  [][ \A v \in Items, b \in BOOLEAN :
        /\ (Add(v, TRUE, b) /\ Holds(value.val, v))
             => /\ value' = value
                /\ delivered' = delivered
                /\ ~Last(history').bc
        /\ Add(v, FALSE, b)
             => /\ Len(value'.val) = Len(value.val) + 1
                /\ value'.val = value.val \o <<v>> ]_vars

C15_Witness ==
  /\ kind = "ArrayState"
  /\ Len(history) = 3
  /\ \A n \in 1..3 : history[n].op = "add"
  /\ history[1].bc /\ history[1].val.val = <<1>>
  /\ ~history[2].bc /\ history[2].val.val = <<1>>
  /\ history[3].bc /\ value.val = <<1, 1>>

\* --------------------------------------------------------------- C16
\* C16: an add that finds its value already there (ArrayState.add and
\* KeyValuesState.addToValue with unique = true) leaves the stored value, the
\* suppress flag and what every subscriber has been given unchanged, so an
\* onSet or onChange subscriber registered right after it is given at
\* subscribe time what it would have been given without the call.
FlagBefore(n) == IF n = 1 THEN FALSE ELSE history[n - 1].flag

C16_NoOpAddChangesNothing ==
  \A n \in 1..Len(history) :
    (history[n].op \in {"add", "addToValue"} /\ ~history[n].bc)
    => /\ history[n].val = Held(n)
       /\ history[n].flag = FlagBefore(n)
       /\ \A d \in 1..Len(delivered) : ~(delivered[d].at = n /\ ~delivered[d].replay)
       /\ \A s \in 1..Len(subs) :
            (subs[s].since = n /\ subs[s].mode \in {"onSet", "onChange"})
              => (GotReplay(s) <=> (NonNull(Held(n)) /\ ~FlagBefore(n)))

\* --------------------------------------------------------------- C17
\* C17: after ArrayState.remove(v) the list holds no element equal to v and
\* every other element is kept, in its order; the result is a new list,
\* broadcast through set (so with set's default flag) to the raw stream.
RECURSIVE Kept(_, _)
Kept(list, v) ==
  IF list = << >> THEN << >>
  ELSE IF Head(list) = v THEN Kept(Tail(list), v)
       ELSE <<Head(list)>> \o Kept(Tail(list), v)

DeliveredBefore(n) == {d \in 1..Len(delivered) : delivered[d].at < n}

C18_KVsCopyOnWrite ==
  \A n \in 1..Len(history) :
    ( /\ kind = "KeyValuesState"
      /\ history[n].op \in {"addToValue", "removeFromValue", "setValue"}
      /\ history[n].bc )
    => /\ history[n].val.ref # Held(n).ref
       /\ \A d \in DeliveredBefore(n) :
            delivered[d].val.ref = history[n].val.ref
              => delivered[d].val = history[n].val

\* --------------------------------------------------------------- C19
\* C19: KeyValueState's setValue(k, v) and unset(k) each broadcast a new
\* mapping that differs from the one held before in the entry for k alone
\* (every other key keeps its value), and the mapping object held before the
\* call, or delivered before it, is left unmodified.
SameButFor(new, old, k) ==
  \A j \in Keys \ {k} :
    /\ j \in DOMAIN new <=> j \in DOMAIN old
    /\ j \in DOMAIN old => new[j] = old[j]

C19_KVCopyOnWrite ==
  \A n \in 1..Len(history) :
    ( /\ kind = "KeyValueState"
      /\ history[n].op \in {"setValue", "unset"}
      /\ history[n].bc )
    => /\ \E k \in Keys : SameButFor(history[n].val.val, Held(n).val, k)
       /\ history[n].val.ref # Held(n).ref
       /\ \A d \in DeliveredBefore(n) :
            delivered[d].val.ref = history[n].val.ref
              => delivered[d].val.val = history[n].val.val

\* --------------------------------------------------------------- C20
\* C20: a subscriber of KeyValueState.hasKey(k) (exact matching) is given,
\* when it subscribes, whether k is a key of the mapping (true after
\* setValue(k, v)), and afterwards, at each broadcast that changes it, whether
\* k is a key of the new mapping (false after unset(k)): every emission says
\* whether k is a key of the current mapping, and no two consecutive
\* emissions are equal.
IsKey(s, x) == Prim(subs[s].key \in DOMAIN x.val)

RECURSIVE Concatenated(_)
Concatenated(parts) ==
  IF parts = << >> THEN ""
  ELSE IF Len(parts) = 1 THEN (IF parts[1].isNull THEN "null" ELSE parts[1].s)
       ELSE (IF parts[1].isNull THEN "null" ELSE parts[1].s)
              \o "####" \o Concatenated(Tail(parts))

C21_CompositeKeyRoundTrip ==
  [][ \A v \in Values, keys \in KeyPartLists :
        SetValueByKeys(v, FALSE, keys)
          => /\ getValueByKeys(keys)' = v
             /\ value'.val = [j \in DOMAIN value.val \cup {Concatenated(keys)} |->
                                IF j = Concatenated(keys) THEN v ELSE value.val[j]] ]_vars

\* --------------------------------------------------------------- C22
\* C22: KeyValuesState.length is the number of elements that are not lists,
\* over the lists of all keys and through nested lists: 3 for
\* {a: [1, 2], b: [3]} and for {a: [[1, 2], 3]}; it is not the number of
\* keys; it is 0 for an empty mapping and when every list is empty.
RECURSIVE Leaves(_)
Leaves(list) ==
  IF list = << >> THEN << >>
  ELSE (IF Head(list).arr THEN Leaves(Head(list).items) ELSE <<Head(list).v>>)
         \o Leaves(Tail(list))
LeavesOfKey(x, k) == IF k \in DOMAIN x.val THEN Leaves(x.val[k].val) ELSE << >>
LeafCount(x) == Len(LeavesOfKey(x, "a")) + Len(LeavesOfKey(x, "b"))
Lists(x) == [k \in DOMAIN x.val |-> x.val[k].val]

C22_LengthCountsLeaves ==
  \A n \in 1..Len(history) :
    history[n].op = "length" =>
      /\ history[n].result = LeafCount(Held(n))
      /\ (\A k \in DOMAIN Held(n).val : Held(n).val[k].val = << >>)
           => history[n].result = 0
      /\ Lists(Held(n)) = [a |-> <<Leaf(1), Leaf(2)>>, b |-> <<Leaf(3)>>]
           => history[n].result = 3
      /\ Lists(Held(n)) = [a |-> <<Arr(<<Leaf(1), Leaf(2)>>), Leaf(3)>>]
           => history[n].result = 3

C22_Witness ==
  /\ Len(history) = 2
  /\ history[1].op = "setValue"
  /\ history[2].op = "length"
  /\ Lists(value) = [a |-> <<Arr(<<Leaf(1), Leaf(2)>>), Leaf(3)>>]
  /\ history[2].result = 3

\* --------------------------------------------------------------- C23
\* C23: an onFirstNonEmptySet or onFirstNonEmptyChange subscriber of a
\* KeyValuesState, registered while the mapping has no keys, is given nothing
\* until a mapping with at least one key is broadcast with the flag false, is
\* then given that first such mapping, once, and completes; so after
\* addToValue(k, v) or setValue(k, list) with suppress = false on an empty
\* container both have fired.
NonEmptyBroadcasts(s) ==
  {n \in CallsSeenBy(s) :
     history[n].bc /\ DOMAIN history[n].val.val # {} /\ ~history[n].flag}

C23_FirstNonEmptyFires ==
  \A s \in 1..Len(subs) :
    ( /\ kind = "KeyValuesState"
      /\ subs[s].mode \in {"onFirstNonEmptySet", "onFirstNonEmptyChange"}
      /\ DOMAIN subs[s].start.val = {} )
    => /\ Len(Invocations(s)) <= 1
       /\ NonEmptyBroadcasts(s) = {} => Invocations(s) = << >>
       /\ \A n \in NonEmptyBroadcasts(s) :
            (\A m \in NonEmptyBroadcasts(s) : n <= m)
              => Got(s, n) /\ subs[s].completed

\* --------------------------------------------------------------- C24
\* What subscription s was shown: the value current when it was made (the
\* replay, at = since) and then every broadcast, each with the flag it was
\* made under.
Broadcasts(s) ==
  SelectSeq([j \in 1..(Len(history) - subs[s].since) |-> subs[s].since + j],
            LAMBDA n : history[n].bc)
Shown(s) ==
  <<[at |-> subs[s].since, rec |-> subs[s].start, flag |-> subs[s].startFlag]>>
  \o [j \in 1..Len(Broadcasts(s)) |->
        [at |-> Broadcasts(s)[j], rec |-> history[Broadcasts(s)[j]].val,
         flag |-> history[Broadcasts(s)[j]].flag]]

\* Of what s was shown, the broadcasts in which its key is present while the
\* flag is false, each as the value stored at the key.
Present(s) ==
  SelectSeq(Shown(s), LAMBDA e : subs[s].key \in DOMAIN e.rec.val /\ ~e.flag)
StoredValues(s) ==
  [j \in 1..Len(Present(s)) |->
     [at |-> Present(s)[j].at, val |-> Prim(Present(s)[j].rec.val[subs[s].key])]]

\* seq without the elements whose val repeats the val of the element before.
RECURSIVE Changes(_)
Changes(seq) ==
  IF Len(seq) <= 1 THEN seq
  ELSE LET r == Changes(SubSeq(seq, 1, Len(seq) - 1))
       IN IF seq[Len(seq)].val = seq[Len(seq) - 1].val THEN r
          ELSE Append(r, seq[Len(seq)])

\* C24: a subscriber of KeyValueState.stateOfKey(k, false) is given the value
\* stored at k for every broadcast (the replay included) in which k is
\* present while the suppress flag is false, repeats included, and nothing
\* else; a subscriber of stateOfKey(k, true) is given the same sequence
\* without the consecutive repeats, so no two consecutive emissions are
\* identical; neither is ever invoked for a broadcast in which k is absent.
C24_StateOfKey ==
  \A s \in 1..Len(subs) :
    kind = "KeyValueState" =>
      /\ subs[s].mode = "stateOfKeyEvery" => Given(s) = StoredValues(s)
      /\ subs[s].mode = "stateOfKey"
           => /\ Given(s) = Changes(StoredValues(s))
              /\ \A j \in 2..Len(Log(s)) : Log(s)[j] # Log(s)[j - 1]
      /\ subs[s].mode \in {"stateOfKey", "stateOfKeyEvery"}
           => \A n \in CallsSeenBy(s) :
                subs[s].key \notin DOMAIN history[n].val.val => ~Got(s, n)

\* Two subscribers, one of each kind, after the same value was stored twice
\* and the key was absent at first: the first was given the repeat, the
\* second was not.
C24_Witness ==
  \E s, t \in 1..Len(subs) :
    /\ kind = "KeyValueState"
    /\ subs[s].mode = "stateOfKeyEvery" /\ subs[t].mode = "stateOfKey"
    /\ subs[s].key \notin DOMAIN subs[s].start.val
    /\ Len(Log(s)) >= 2 /\ Log(s)[1] = Log(s)[2]
    /\ Len(Log(t)) = 1
    /\ Len(StoredValues(t)) >= 2

\* --------------------------------------------------------------- C25
\* Of what s was shown, the lists that hold an element its predicate
\* accepts.
Accepted(s, list) == SelectSeq(list, LAMBDA item : item \in subs[s].predicate)
WithMatch(s) == SelectSeq(Shown(s), LAMBDA e : Accepted(s, e.rec.val) # << >>)

\* C25: a subscriber of ArrayState.stateOfItem(predicate) is invoked at most
\* once, whatever list mutations follow: with the first element accepted by
\* the predicate in the earliest list, the one current when it subscribes
\* included, that holds such an element; the stream is then complete, and
\* until such a list is broadcast it is not invoked and stays subscribed.
C25_StateOfItemOneShot ==
  \A s \in 1..Len(subs) :
    (kind = "ArrayState" /\ subs[s].mode = "stateOfItem") =>
      IF WithMatch(s) = << >>
      THEN Given(s) = << >> /\ ~subs[s].completed
      ELSE /\ Given(s) = <<[at |-> WithMatch(s)[1].at,
                            val |-> Prim(Accepted(s, WithMatch(s)[1].rec.val)[1])]>>
           /\ subs[s].completed

\* A subscriber that found nothing in the list current when it subscribed,
\* was then given the first of two accepted elements of a later list, and
\* was not invoked when a list without that element was broadcast afterwards.
C25_Witness ==
  \E s \in 1..Len(subs) :
    /\ kind = "ArrayState" /\ subs[s].mode = "stateOfItem"
    /\ ~GotReplay(s)
    /\ Len(Log(s)) = 1
    /\ Len(Accepted(s, WithMatch(s)[1].rec.val)) = 2
    /\ Invocations(s)[1].at < Len(history)
    /\ ~Holds(Last(history).val.val, Log(s)[1].val)

\* --------------------------------------------------------------- C26
\* What s was shown, each list as its sub-list of the elements the predicate
\* accepts.
SubLists(s) ==
  [j \in 1..Len(Shown(s)) |->
     [at |-> Shown(s)[j].at, val |-> Accepted(s, Shown(s)[j].rec.val)]]
GivenLists(s) ==
  [j \in 1..Len(Given(s)) |-> [at |-> Given(s)[j].at, val |-> Given(s)[j].val.val]]

\* C26: a subscriber of ArrayState.stateOfItems(predicate) is given, for as
\* long as it is subscribed, the sub-list of the current list that the
\* predicate accepts, once for every broadcast (the replay included) whose
\* sub-list is not equal, element by element, to the one it was given last,
\* so that no two consecutive emissions are equal lists.
C26_StateOfItemsStructural ==
  \A s \in 1..Len(subs) :
    (kind = "ArrayState" /\ subs[s].mode = "stateOfItems") =>
      /\ GivenLists(s) = Changes(SubLists(s))
      /\ ~subs[s].completed

\* --------------------------------------------------------------- C27
\* t occurs in s, for the texts "a", "b" and "ab".
Within(t, s) == t = s \/ (s = "ab" /\ t \in {"a", "b"})

\* What hasItem / hasKey subscription s is to report of a list or a mapping.
Reported(s, rec) ==
  CASE subs[s].mode = "hasItem" -> Holds(rec, subs[s].item)
    [] subs[s].mode = "hasItemPartial" ->
         IF subs[s].item.text
         THEN \E i \in 1..Len(rec) : Within(subs[s].item.s, rec[i].s)
         ELSE Holds(rec, subs[s].item)
    [] subs[s].mode = "hasKey" -> subs[s].key \in DOMAIN rec
    [] subs[s].mode = "hasKeyPartial" -> \E k \in DOMAIN rec : Within(subs[s].key, k)
Reports(s) ==
  [j \in 1..Len(Shown(s)) |->
     [at |-> Shown(s)[j].at, val |-> Prim(Reported(s, Shown(s)[j].rec.val))]]

DeliveredWithinCall ==
  /\ Len(delivered') >= Len(delivered)
  /\ SubSeq(delivered', 1, Len(delivered)) = delivered
  /\ \A d \in (Len(delivered) + 1)..Len(delivered') :
       IF delivered'[d].replay
       THEN /\ Len(subs') = Len(subs) + 1 /\ history' = history
            /\ delivered'[d].sub = Len(subs')
       ELSE /\ Len(history') = Len(history) + 1
            /\ delivered'[d].at = Len(history')
            /\ delivered'[d].val = Last(history').val

\* C28: the observers are invoked synchronously and in order: all the
\* invocations that a mutator call causes are made within that call (none is
\* queued for later), within one call the subscribers are invoked in the
\* order in which they subscribed, and every invocation caused by an earlier
\* call precedes every invocation caused by a later one.
C28_SynchronousOrderedDelivery ==
  /\ [](\A d, e \in 1..Len(delivered) :
          d < e => /\ delivered[d].at <= delivered[e].at
                   /\ ( /\ delivered[d].at = delivered[e].at
                        /\ ~delivered[d].replay /\ ~delivered[e].replay )
                        => delivered[d].sub < delivered[e].sub)
  /\ [][DeliveredWithinCall]_vars

\* Two subscribers, both invoked by each of two consecutive calls.
C28_Witness ==
  /\ Len(subs) = 2
  /\ \E n \in 1..(Len(history) - 1) :
       /\ subs[1].since < n /\ subs[2].since < n
       /\ Got(1, n) /\ Got(2, n) /\ Got(1, n + 1) /\ Got(2, n + 1)

\* --------------------------------------------------------------- C29
\* The step invokes the observer of subscription t with the value of the
\* call numbered Len(history) + 1.
InvokedByOuter(t) ==
  \E d \in (Len(delivered) + 1)..Len(delivered') :
    delivered'[d].sub = t /\ delivered'[d].at = Len(history) + 1

\* C29: the suppress flag is one field of the container, not a tag on the
\* emission: when an observer calls set(y, f2) while set(x, f1) is being
\* delivered, an onSet subscriber registered up to and including the
\* calling one is given x exactly when f1 is false, and one registered after
\* it exactly when f2 is false, whatever f1 was; so there are executions in
\* which set(x, false) is withheld from a later onSet subscriber and in
\* which set(x, true) is delivered to one.
C29_LaterFlagGoverns ==
  [][ \A x \in Values, y \in Values, f1 \in BOOLEAN, f2 \in BOOLEAN, r \in 1..MaxSubs :
        SetReentrant(x, f1, y, f2, r)
          => \A t \in 1..Len(subs) :
               subs[t].mode = "onSet"
                 => (InvokedByOuter(t) <=> IF t <= r THEN ~f1 ELSE ~f2) ]_vars

\* An onSet subscriber from which the non-null value of a set(x, false) was
\* withheld, and to which the value of a set(x, true) was delivered.
C29_Witness ==
  \E s \in 1..Len(subs) :
    /\ subs[s].mode = "onSet"
    /\ \E n \in CallsSeenBy(s) :
         IsSet(n, FALSE) /\ NonNull(history[n].val) /\ ~Got(s, n)
    /\ \E m \in CallsSeenBy(s) : IsSet(m, TRUE) /\ Got(s, m)

\* --------------------------------------------------------------- C30
\* Of what s was shown, the broadcasts made while the flag is false, each as
\* the value stored at the key, or undefined where the key is absent.
Unsuppressed(s) == SelectSeq(Shown(s), LAMBDA e : ~e.flag)
StoredOrUndefined(s) ==
  [j \in 1..Len(Unsuppressed(s)) |->
     [at |-> Unsuppressed(s)[j].at,
      val |-> IF subs[s].key \in DOMAIN Unsuppressed(s)[j].rec.val
              THEN Prim(Unsuppressed(s)[j].rec.val[subs[s].key])
              ELSE Prim(Null)]]

\* C30: a subscriber of KeyValueState.onValueChange(key, .., filterValues)
\* is never given the value it was given last; with filterValues = true it
\* is given the changes of the value stored at key over the broadcasts in
\* which key is present and the suppress flag is false; with filterValues =
\* false it is given the changes of the value at key, undefined where key
\* is absent, over the broadcasts made while the suppress flag is false; in
\* neither mode is a broadcast made while the flag is true delivered.
C30_OnValueChange ==
  \A s \in 1..Len(subs) :
    kind = "KeyValueState" =>
      /\ subs[s].mode = "onValueChange" => Given(s) = Changes(StoredValues(s))
      /\ subs[s].mode = "onValueChangeUnfiltered"
           => Given(s) = Changes(StoredOrUndefined(s))
      /\ subs[s].mode \in {"onValueChange", "onValueChangeUnfiltered"}
           => /\ \A j \in 2..Len(Log(s)) : Log(s)[j] # Log(s)[j - 1]
              /\ \A n \in CallsSeenBy(s) : history[n].flag => ~Got(s, n)

\* --------------------------------------------------------------- C31
\* C31: on a State, whenever the call made last is set(v, false) for a
\* non-null v, an onChange subscriber registered before every call has been
\* given v last: a suppressed set withholds its own broadcast only.
C31_SuppressionIsOneShot ==
  \A s \in 1..Len(subs) :
    ( /\ kind = "State" /\ subs[s].mode = "onChange"
      /\ history # << >>
      /\ subs[s].since = 0
      /\ IsSet(Len(history), FALSE)
      /\ NonNull(Last(history).val) )
    => /\ Log(s) # << >>
       /\ Last(Log(s)) = Last(history).val

\* --------------------------------------------------------------- C32
\* C32: an onChange subscriber of a State is never given the value it was
\* given last, whatever set calls are made, those with null and those with
\* suppress = true included.
C32_NoConsecutiveRepeats ==
  \A s \in 1..Len(subs) :
    (kind = "State" /\ subs[s].mode = "onChange")
      => \A j \in 2..Len(Log(s)) : Log(s)[j] # Log(s)[j - 1]

\* --------------------------------------------------------------- C33
\* The flag that the calls made before subscription s left behind.
FlagLeft(n) == IF n = 0 THEN FALSE ELSE history[n].flag

\* C33: the flag holds what the most recent call left (after set(v, f) it is
\* f) until the next mutator call; a subscriber registering through onSet or
\* onChange is invoked at once, with the current value, exactly when that
\* value is non-null and the flag is false: not after set(v, true), and
\* always, with the empty list or mapping, on an ArrayState, KeyValueState
\* or KeyValuesState built without an initial value and not yet called.
C33_ReplayAndFlagPersistence ==
  /\ bypassChangeDetection = FlagLeft(Len(history))
  /\ (history # << >> /\ Last(history).op = "set")
       => bypassChangeDetection = Last(history).suppress
  /\ \A s \in 1..Len(subs) :
       subs[s].mode \in {"onSet", "onChange"} =>
         /\ subs[s].startFlag = FlagLeft(subs[s].since)
         /\ GotReplay(s) <=> (NonNull(subs[s].start) /\ ~subs[s].startFlag)
         /\ GotReplay(s) => /\ Invocations(s)[1].replay
                            /\ Invocations(s)[1].val = subs[s].start
                            /\ Invocations(s)[1].at = subs[s].since
         /\ (subs[s].since > 0 /\ IsSet(subs[s].since, TRUE)) => ~GotReplay(s)
         /\ (kind # "State" /\ subs[s].since = 0)
              => /\ GotReplay(s)
                 /\ Invocations(s)[1].val.val \in {<< >>, EmptyMap}

\* A list or map container built without an initial value: a subscriber
\* that registered before any call was given the empty value at once, and
\* one that registered right after set(v, true) was not invoked.
C33_Witness ==
  \E s, t \in 1..Len(subs) :
    /\ kind # "State"
    /\ subs[s].mode \in {"onSet", "onChange"} /\ subs[t].mode \in {"onSet", "onChange"}
    /\ subs[t].since = 0 /\ GotReplay(t)
    /\ subs[s].since > 0 /\ IsSet(subs[s].since, TRUE) /\ NonNull(subs[s].start)
    /\ ~GotReplay(s)

\* --------------------------------------------------------------- C34
\* The entry that the key parts `keys` address is the same before and after
\* the step.
EntryKept(keys) ==
  /\ KeysJoin(keys) \in DOMAIN value'.val <=> KeysJoin(keys) \in DOMAIN value.val
  /\ KeysJoin(keys) \in DOMAIN value.val
       => value'.val[KeysJoin(keys)] = value.val[KeysJoin(keys)]

\* C34: for sequences of key parts none of which contains '####' (here:
\* texts of at most two characters), two different sequences never give the
\* same composite key, so setValueByKeys on one sequence leaves the entry
\* of every other sequence as it was.
C34_CompositeKeysCollisionFree ==
  [][ \A v \in Values, keys \in ShortPartLists, other \in ShortPartLists :
        (SetValueByKeys(v, DefaultBypass, keys) /\ other # keys)
          => /\ KeysJoin(other) # KeysJoin(keys)
             /\ EntryKept(other) ]_vars

\* --------------------------------------------------------------- C35
\* C35: for an ArrayState, a KeyValueState and a KeyValuesState, of two
\* consecutive calls set(x), set(y) with the flag false an onChange
\* subscriber is invoked by the second exactly when y is another object
\* than x, whether or not their contents are equal, and by the first
\* exactly when x is another object than the one held before.
C35_OnChangeByIdentity ==
  \A s \in 1..Len(subs) :
    (kind # "State" /\ subs[s].mode = "onChange") =>
      \A n \in CallsSeenBy(s) :
        (n - 1 \in CallsSeenBy(s) /\ IsSet(n - 1, FALSE) /\ IsSet(n, FALSE))
          => /\ Got(s, n) <=> history[n].val.ref # history[n - 1].val.ref
             /\ Got(s, n - 1) <=> history[n - 1].val.ref # Before(s, n - 1).ref

\* An onChange subscriber of a list or map container invoked by each of two
\* consecutive set calls whose arguments are different objects of equal
\* content.
C35_Witness ==
  \E s \in 1..Len(subs) :
    /\ kind # "State" /\ subs[s].mode = "onChange"
    /\ Len(history) = 2 /\ subs[s].since = 0
    /\ IsSet(1, FALSE) /\ IsSet(2, FALSE)
    /\ history[1].val.ref # history[2].val.ref
    /\ Content(history[1].val) = Content(history[2].val)
    /\ Got(s, 1) /\ Got(s, 2)

\* --------------------------------------------------------------- C36
\* Of what s was shown, the broadcasts in which its key is present while the
\* flag is false, each as the list object stored at the key.
StoredLists(s) ==
  [j \in 1..Len(Present(s)) |->
     [at |-> Present(s)[j].at, val |-> Present(s)[j].rec.val[subs[s].key]]]

\* C36: a subscriber of KeyValuesState.stateOfKey(k, false) is given the
\* list stored at k for every broadcast (the replay included) in which k is
\* present while the suppress flag is false, also when consecutive
\* broadcasts carry the same list object, as with KeyValueState; only
\* stateOfKey(k, true) leaves adjacent repeats out.
C36_KVsStateOfKeyEvery ==
  \A s \in 1..Len(subs) :
    kind = "KeyValuesState" =>
      /\ subs[s].mode = "stateOfKeyEvery" => Given(s) = StoredLists(s)
      /\ subs[s].mode = "stateOfKey" => Given(s) = Changes(StoredLists(s))

\* --------------------------------------------------------------- C37
\* Of what s was shown, the lists with at least one element broadcast while
\* the flag is false.
NonEmptyShown(s) == SelectSeq(Shown(s), LAMBDA e : Len(e.rec.val) > 0 /\ ~e.flag)

\* C37: a subscriber of ArrayState.onFirstSet or onFirstChange is never
\* given an empty list; it is given, once, the first list (the one current
\* when it subscribes included) that has an element while the suppress flag
\* is false, and is then complete; on an empty list it is not invoked when
\* it subscribes, whereas an onSet or onChange subscriber is given the empty
\* list then (the flag being false).
C37_ArrayFirstSkipsEmpty ==
  \A s \in 1..Len(subs) :
    kind = "ArrayState" =>
      /\ subs[s].mode \in {"onFirstSet", "onFirstChange"}
           => /\ \A j \in 1..Len(Log(s)) : Log(s)[j].val # << >>
              /\ subs[s].start.val = << >> => ~GotReplay(s)
              /\ IF NonEmptyShown(s) = << >>
                 THEN Given(s) = << >> /\ ~subs[s].completed
                 ELSE /\ Given(s) = <<[at |-> NonEmptyShown(s)[1].at,
                                       val |-> NonEmptyShown(s)[1].rec]>>
                      /\ subs[s].completed
      /\ ( /\ subs[s].mode \in {"onSet", "onChange"}
           /\ subs[s].start.val = << >> /\ ~subs[s].startFlag )
           => GotReplay(s) /\ Log(s)[1].val = << >>

\* --------------------------------------------------------------- C38
\* The step leaves the entry of every key other than k as it was.
OthersKept(k) ==
  \A j \in Keys \ {k} :
    /\ j \in DOMAIN value'.val <=> j \in DOMAIN value.val
    /\ j \in DOMAIN value.val => value'.val[j] = value.val[j]

\* C38: KeyValuesState.removeFromValue(k, v) with k present leaves k a key,
\* its list being the old one without any occurrence of v (possibly empty),
\* leaves every other key and list alone and broadcasts the mapping; with k
\* absent it leaves the mapping alone and broadcasts nothing.  addToValue(k,
\* v) with k absent makes k's entry [v] and leaves every other key alone.
C38_ListEditsAreLocal ==
  [][ \A k \in Keys, v \in Items, b \in BOOLEAN :
        /\ (RemoveFromValue(k, v, b) /\ k \in DOMAIN value.val)
             => /\ k \in DOMAIN value'.val
                /\ value'.val[k].val = Kept(value.val[k].val, v)
                /\ OthersKept(k)
                /\ Last(history').bc /\ Last(history').val = value'
        /\ (RemoveFromValue(k, v, b) /\ k \notin DOMAIN value.val)
             => /\ value' = value
                /\ ~Last(history').bc
                /\ delivered' = delivered
        /\ \A u \in BOOLEAN :
             (AddToValue(k, v, u, b) /\ k \notin DOMAIN value.val)
               => /\ k \in DOMAIN value'.val
                  /\ value'.val[k].val = <<v>>
                  /\ OthersKept(k)
                  /\ Last(history').bc /\ Last(history').val = value' ]_vars

\* removeFromValue has just emptied the list of "a", which stays a key,
\* while "b" keeps its list.
C38_Witness ==
  /\ kind = "KeyValuesState"
  /\ Len(history) >= 2
  /\ Last(history).op = "removeFromValue" /\ Last(history).bc
  /\ Keys \subseteq DOMAIN Held(Len(history)).val
  /\ Held(Len(history)).val["a"].val # << >>
  /\ value.val["a"].val = << >>
  /\ value.val["b"] = Held(Len(history)).val["b"]
  /\ value.val["b"].val # << >>

====
